---- MODULE Spec2Model ----
(***************************************************************************)
(* Model of the orchestration core of the needle-in-the-haystack server:  *)
(* the credential store, the provider adapter, the conversation chain     *)
(* (startConversation / continueConversationChain / stopConversation) and *)
(* the parallel needle-test runner (runNeedleTest).                        *)
(*                                                                         *)
(* Text is a sequence of one-character strings, so that trim(), length    *)
(* and the falsy test of the empty string are computed, not assumed.      *)
(* The model follows one session (one socket) and one conversation id.    *)
(***************************************************************************)
EXTENDS Integers, Sequences, FiniteSets, TLC

VARIABLES
    ENV_API_KEYS,        \* provider -> process-wide key ("" when unset)
    userApiKeys,         \* userId -> provider -> encrypted key or NoStoredKey
    models,              \* AIModelManager.models: provider -> key of the client
    exists,              \* the conversation is in ConversationManager.conversations
    participants,        \* conversation.participants
    messages,            \* conversation.messages
    initialGoal,         \* conversation.initialGoal
    currentTurn,         \* conversation.currentTurn
    isActive,            \* conversation.isActive
    emptyResponseCount,  \* conversation.emptyResponseCount
    calls,               \* provider calls of the conversation awaiting their reply
    timers,              \* pending setTimeout callbacks of the conversation
    reply,               \* what each model's provider answers (fixed at first call)
    emitted,             \* socket.emit log of the session
    started,             \* a startConversation request was received
    stops,               \* stopConversation requests received
    keySets,             \* setApiKey requests received
    activeTests,         \* NeedleTestManager.activeTests holds the test
    exactMatch,          \* test.exactMatch
    tasks,               \* the per-model async tasks of runNeedleTest
    results,             \* test.results: modelId -> result
    testState,           \* "idle", "running" (awaiting Promise.all), "complete"
    probe                \* one call of a pure function: its arguments and its result

keyVars  == <<ENV_API_KEYS, userApiKeys, models, keySets>>
convVars == <<exists, participants, messages, initialGoal, currentTurn,
              isActive, emptyResponseCount, calls, timers, started, stops>>
needleVars == <<activeTests, exactMatch, tasks, results, testState>>
vars     == <<keyVars, convVars, needleVars, reply, emitted, probe>>

----------------------------------------------------------------------------
(* Bounds of the model *)

MaxTurns    == 34   \* cap on conversation.currentTurn (the code has none)
MaxStops    == 1    \* cap on stopConversation requests per run
MaxKeySets  == 1    \* cap on setApiKey requests arriving after the server start
MaxKeyTurns == 3    \* cap on currentTurn in the runs that take setApiKey requests
MaxLiveTurns == 4   \* cap on currentTurn between two reductions in the unbounded runs
MaxRotationTurns == 6 \* cap on currentTurn in the runs with a participant that is passed over
RateLimit == 2        \* the limit passed to checkRateLimit (its default is 60)
MaxClockSteps == 3    \* cap on the advances of the clock in the runs of the rate limiter
MaxRateChecks == 5    \* cap on the checkRateLimit calls in the runs of the rate limiter
MaxSharedKeySets == 3 \* cap on setApiKey requests in the runs of two sessions
MaxSharedCalls == 2  \* cap on the requests in flight in the runs of two sessions
MaxResponseLen == 3 \* length of the responses handed to checkExactMatch
MaxTargetLen   == 2 \* length of the targets handed to checkExactMatch
MaxHistoryLen  == 3 \* length of the histories handed to generateClaudeResponse

----------------------------------------------------------------------------
(* Program constants *)

MAX_MESSAGES        == 30   \* messages.length < 30 in the success timer
MAX_EMPTY_RESPONSES == 5    \* emptyResponseCount >= 5
HISTORY_LIMIT       == 20   \* getConversationHistory(conversationId, 20)

Null == "null"

Placeholder ==
    <<"(","P","r","e","v","i","o","u","s"," ","t","u","r","n"," ","p","r","o",
      "v","i","d","e","d"," ","n","o"," ","t","e","x","t"," ","o","u","t","p",
      "u","t",")">>
Hello == <<"H","e","l","l","o">>

AnthropicEmptyMessage ==
    "Anthropic response content was empty or not in the expected text format."
GeminiEmptyMessage == "Empty response from Gemini"
UnknownModelMessage == "Unknown model"
NoApiKeyMessage     == "No API key found"
TransportMessage    == "transport error"

ReasonUserStop     == "User requested stop"
ReasonNoModels     == "No models with API keys available"
ReasonEmpty        == "Too many empty responses"
ReasonEmptyFailed  == "Too many empty/failed responses"
ReasonMessageLimit == "Message limit reached"

Providers == {"openai", "google", "anthropic"}
Users     == {"s1"}
sessionId == "s1"

----------------------------------------------------------------------------
(* Text helpers (String.prototype.trim, truthiness of a string) *)

IsSpace(c) == c \in {" ", "\n", "\t"}

RECURSIVE TrimStart(_)
TrimStart(s) ==
    IF s = <<>> THEN <<>>
    ELSE IF IsSpace(Head(s)) THEN TrimStart(Tail(s)) ELSE s

RECURSIVE TrimEnd(_)
TrimEnd(s) ==
    IF s = <<>> THEN <<>>
    ELSE IF IsSpace(s[Len(s)]) THEN TrimEnd(SubSeq(s, 1, Len(s) - 1)) ELSE s

Trim(s) == TrimEnd(TrimStart(s))

\* !responseText || responseText.trim().length === 0
IsBlank_NoTrim(s) == s = <<>>

IsBlank(s) == s = <<>> \/ Len(Trim(s)) = 0

\* a || b on strings
OrElse(a, b) == IF a = <<>> THEN b ELSE a

----------------------------------------------------------------------------
(* Credential store *)

NoStoredKey == <<>>     \* userKeys[provider] is undefined

encryptApiKey(apiKey) == <<"enc", apiKey>>
decryptApiKey(encryptedKey) == encryptedKey[2]

Truthy(k) == k # Null /\ k # ""

\* a resolver that looks at the session's stored key first
getApiKey_UserFirst(provider, userId) ==
    IF userId \in DOMAIN userApiKeys /\ userApiKeys[userId][provider] # NoStoredKey
    THEN decryptApiKey(userApiKeys[userId][provider])
    ELSE IF Truthy(ENV_API_KEYS[provider]) THEN ENV_API_KEYS[provider]
    ELSE Null

getApiKey(provider, userId) ==
    IF Truthy(ENV_API_KEYS[provider]) THEN ENV_API_KEYS[provider]
    ELSE IF userId \in DOMAIN userApiKeys
            /\ userApiKeys[userId][provider] # NoStoredKey
         THEN decryptApiKey(userApiKeys[userId][provider])
         ELSE Null

\* modelMapping of generateResponseWithConfig (the ids the model uses)
AdapterProvider(modelId) ==
    CASE modelId \in {"o3", "gpt-4.1", "gpt-4"}  -> "openai"
      [] modelId \in {"gemini-1.5-pro"}          -> "google"
      [] modelId \in {"claude-3-opus"}           -> "anthropic"
      [] OTHER                                   -> Null

\* modelMapping of continueConversationChain and modelConfig of startConversation
ChainProvider(modelId) ==
    CASE modelId \in {"gpt-4"}                           -> "openai"
      [] modelId \in {"gemini-1.5-pro", "gemini-1.0-pro"} -> "google"
      [] modelId \in {"claude-3-opus"}                   -> "anthropic"
      [] OTHER                                           -> Null

----------------------------------------------------------------------------
(* Provider adapter *)

NullText == <<"null">>     \* null/undefined where a string is expected

Ok(text)     == [ok |-> TRUE,  text |-> text,     message |-> ""]
Err(message) == [ok |-> FALSE, text |-> NullText, message |-> message]

Replies == {"text", "ws", "empty", "fail"}

\* the text a provider puts in its reply envelope
ReplyText(r) ==
    CASE r = "text"  -> <<"o","k">>
      [] r = "ws"    -> <<" ">>
      [] OTHER       -> <<>>

\* apiType of the modelMapping entry
AdapterApiType(modelId) ==
    IF modelId \in {"o3", "gpt-4.1"} THEN "responses" ELSE "chat"

UnexpectedFormatMessage == "Unexpected response format from OpenAI Responses API"

\* a field of a provider reply that is undefined, null or ''
NoText == <<>>

\* A reply of the responses API, by the fields the extraction reads:
\*   output_text, text_content (text.content), output0 (output[0].content[0].text),
\*   choices0 (choices[0] is there), choices_text (choices[0].text),
\*   choices_message (choices[0].message.content), output_obj (output.text), content
ExtractResponsesText_ChoicesFirst(response) ==
    IF response.choices0 /\ response.choices_message # NoText
        THEN Ok(response.choices_message)
    ELSE IF response.output_text # NoText THEN Ok(response.output_text)
    ELSE Err(UnexpectedFormatMessage)

\* the if / else-if chain over the reply shapes
ExtractResponsesText(response) ==
    IF response.output_text # NoText THEN Ok(response.output_text)
    ELSE IF response.text_content # NoText THEN Ok(response.text_content)
    ELSE IF response.output0 # NoText THEN Ok(response.output0)
    ELSE IF response.choices0
        THEN IF response.choices_text # NoText THEN Ok(response.choices_text)
             ELSE IF response.choices_message # NoText THEN Ok(response.choices_message)
             ELSE Err(UnexpectedFormatMessage)
    ELSE IF response.output_obj # NoText THEN Ok(response.output_obj)
    ELSE IF response.content # NoText THEN Ok(response.content)
    ELSE Err(UnexpectedFormatMessage)

\* the reply of the responses API that carries the text in output_text
ResponsesReply(text) ==
    [output_text |-> text, text_content |-> NoText, output0 |-> NoText,
     choices0 |-> FALSE, choices_text |-> NoText, choices_message |-> NoText,
     output_obj |-> NoText, content |-> NoText]

\* responses API: the extraction; chat completions:
\* response.choices[0].message.content, returned as is
generateOpenAIResponse(history, apiType, r) ==
    IF r = "fail" THEN Err(TransportMessage)
    ELSE IF apiType = "responses" THEN ExtractResponsesText(ResponsesReply(ReplyText(r)))
    ELSE Ok(ReplyText(r))

\* validMessages.find(msg => msg.provider === 'user')?.content || 'General discussion'
GeminiInitialPrompt(history) ==
    LET validMessages == SelectSeq(history, LAMBDA msg :
                             msg.content # <<>> /\ Len(Trim(msg.content)) > 0)
        users == SelectSeq(validMessages, LAMBDA msg : msg.provider = "user")
    IN  IF users # <<>> THEN users[1].content
        ELSE <<"G","e","n","e","r","a","l"," ","d","i","s","c","u","s","s","i","o","n">>

generateGeminiResponse(history, r) ==
    LET validMessages == SelectSeq(history, LAMBDA msg :
                             msg.content # <<>> /\ Len(Trim(msg.content)) > 0)
    IN  IF Len(validMessages) = 0 THEN Err("No valid messages to process")
        ELSE IF r = "fail" THEN Err(TransportMessage)
        ELSE IF IsBlank(ReplyText(r)) THEN Err(GeminiEmptyMessage)
        ELSE Ok(ReplyText(r))

\* textContent && textContent.text, else the empty-content error
generateClaudeResponse(history, r) ==
    IF r = "fail" THEN Err(TransportMessage)
    ELSE IF ReplyText(r) # <<>> THEN Ok(ReplyText(r))
    ELSE Err(AnthropicEmptyMessage)

\* ids that are no entry of the modelMapping literal and yet make
\* modelMapping[modelId] truthy: the property names every object literal
\* inherits from Object.prototype
InheritedNames == {"constructor"}

\* the part of generateResponseWithConfig that runs before the provider request;
\* for an inherited name modelConfig is a function, modelConfig.apiKeyField is
\* undefined and getApiKey(undefined, userId) finds nothing
AdapterPrecheck(modelId, userId) ==
    IF modelId \in InheritedNames THEN NoApiKeyMessage
    ELSE IF AdapterProvider(modelId) = Null THEN UnknownModelMessage
    ELSE IF ~Truthy(getApiKey(AdapterProvider(modelId), userId)) THEN NoApiKeyMessage
    ELSE "ok"

\* a dispatch that uses the client already in the slot
AdapterClients_Keep(modelId, userId, clients) == clients

\* this.initializeModel(modelConfig.provider, apiKey), reached only past the prechecks
AdapterClients(modelId, userId, clients) ==
    IF AdapterPrecheck(modelId, userId) = "ok"
    THEN [clients EXCEPT ![AdapterProvider(modelId)] =
              getApiKey(AdapterProvider(modelId), userId)]
    ELSE clients

\* the provider switch of generateResponseWithConfig, given the provider's reply r
generateResponseWithConfig(modelId, history, pre, r) ==
    IF pre # "ok" THEN Err(pre)
    ELSE CASE AdapterProvider(modelId) = "openai"    ->
                  generateOpenAIResponse(history, AdapterApiType(modelId), r)
           [] AdapterProvider(modelId) = "google"    -> generateGeminiResponse(history, r)
           [] AdapterProvider(modelId) = "anthropic" -> generateClaudeResponse(history, r)

----------------------------------------------------------------------------
(* ConversationManager *)

Message(modelId, content) ==
    [provider |-> modelId,
     content  |-> content,
     role     |-> IF modelId = "user" THEN "user" ELSE "ai"]

\* a store that puts the new message in front
addMessage_Prepend(msgs, modelId, content) == <<Message(modelId, content)>> \o msgs

\* a store that pushes the message twice
addMessage_Twice(msgs, modelId, content) ==
    msgs \o <<Message(modelId, content), Message(modelId, content)>>

\* conversation.messages after addMessage(conversationId, modelId, content)
addMessage(msgs, modelId, content) == Append(msgs, Message(modelId, content))

\* conversation.initialGoal after addMessage(conversationId, modelId, content)
addMessageGoal(goal, modelId, content) ==
    IF modelId = "user" /\ (goal = NullText \/ goal = <<>>) THEN content ELSE goal

\* a window that keeps the oldest messages: conversation.messages.slice(0, limit)
getConversationHistory_Oldest(msgs, limit) ==
    IF Len(msgs) <= limit THEN msgs ELSE SubSeq(msgs, 1, limit)

\* conversation.messages.slice(-limit)
getConversationHistory(msgs, limit) ==
    IF Len(msgs) <= limit THEN msgs
    ELSE SubSeq(msgs, Len(msgs) - limit + 1, Len(msgs))

----------------------------------------------------------------------------
(* Socket events *)

Emit(event, arg) == [event |-> event, arg |-> arg]

Count(log, event) == Cardinality({i \in 1..Len(log) : log[i].event = event})

RemoveAt(seq, i) == SubSeq(seq, 1, i - 1) \o SubSeq(seq, i + 1, Len(seq))

----------------------------------------------------------------------------
(* Inputs of the model *)

ParticipantLists ==
    { <<>>,
      <<"gpt-4">>,
      <<"claude-3-opus">>,
      <<"gemini-1.5-pro", "gpt-4">>,
      <<"gpt-4", "claude-3-opus">>,
      <<"o3", "gpt-4.1", "claude-3-opus">> }

Prompts == { <<>>, <<" ">>, <<"h","i">> }

EnvKeySets == { {}, {"anthropic"}, {"openai", "google", "anthropic"} }

UserKeys == { "", "user-key" }

\* setApiKey requests handled before the run starts
KeySeeds ==
    { <<>>,
      << <<"openai", "user-key">> >>,
      << <<"openai", "user-key">>, <<"google", "user-key">> >> }

AllModels == {"gpt-4", "gemini-1.5-pro", "claude-3-opus", "o3", "gpt-4.1"}

----------------------------------------------------------------------------
(* Initial state: server started, one socket connected, no conversation *)

\* a store that keeps one entry per provider for all users
setApiKey_AllUsers(keys, provider, apiKey, userId) ==
    [u \in DOMAIN keys \cup {userId} |->
        [p \in Providers |->
            IF p = provider THEN encryptApiKey(apiKey)
            ELSE IF u \in DOMAIN keys THEN keys[u][p]
            ELSE NoStoredKey]]

\* userApiKeys after setApiKey(provider, apiKey, userId)
setApiKey(keys, provider, apiKey, userId) ==
    [u \in DOMAIN keys \cup {userId} |->
        [p \in Providers |->
            IF u = userId /\ p = provider THEN encryptApiKey(apiKey)
            ELSE IF u \in DOMAIN keys THEN keys[u][p]
            ELSE NoStoredKey]]

\* this.models after initializeModel(provider, apiKey)
initializeModel(clients, provider, apiKey) == [clients EXCEPT ![provider] = apiKey]

RECURSIVE SeededKeys(_)
SeededKeys(seed) ==
    IF seed = <<>> THEN [u \in {} |-> [p \in Providers |-> NoStoredKey]]
    ELSE setApiKey(SeededKeys(SubSeq(seed, 1, Len(seed) - 1)),
                   seed[Len(seed)][1], seed[Len(seed)][2], sessionId)

RECURSIVE SeededClients(_)
SeededClients(seed) ==
    IF seed = <<>> THEN [p \in Providers |-> Null]
    ELSE initializeModel(SeededClients(SubSeq(seed, 1, Len(seed) - 1)),
                         seed[Len(seed)][1], seed[Len(seed)][2])

\* no pure-function call is under examination
NoProbe == [fn |-> "none"]

InitServer ==
    /\ \E env \in EnvKeySets :
           ENV_API_KEYS = [p \in Providers |-> IF p \in env THEN "env-key" ELSE ""]
    /\ \E seed \in KeySeeds :
           /\ userApiKeys = SeededKeys(seed)
           /\ models = SeededClients(seed)
           /\ emitted = [i \in 1..Len(seed) |-> [event |-> "apiKeySet", arg |-> seed[i][1]]]
    /\ exists = FALSE
    /\ participants = <<>>
    /\ messages = <<>>
    /\ initialGoal = NullText
    /\ currentTurn = 0
    /\ isActive = FALSE
    /\ emptyResponseCount = 0
    /\ calls = <<>>
    /\ timers = <<>>
    /\ reply = [m \in AllModels |-> "unset"]
    /\ started = FALSE
    /\ stops = 0
    /\ keySets = 0
    /\ activeTests = FALSE
    /\ exactMatch = <<>>
    /\ tasks = <<>>
    /\ results = [m \in {} |-> 0]
    /\ testState = "idle"

Init == InitServer /\ probe = NoProbe

----------------------------------------------------------------------------
(* socket.on('setApiKey') -> AIModelManager.setApiKey + initializeModel *)

SetApiKey(provider, apiKey) ==
    /\ keySets < MaxKeySets
    /\ keySets' = keySets + 1
    /\ userApiKeys' = setApiKey(userApiKeys, provider, apiKey, sessionId)
    /\ models' = initializeModel(models, provider, apiKey)
    /\ emitted' = Append(emitted, Emit("apiKeySet", provider))
    /\ UNCHANGED <<ENV_API_KEYS, convVars, needleVars, reply, probe>>

----------------------------------------------------------------------------
(* continueConversationChain, up to its await *)

NoModel == "none"

HasKey(modelId, userId) ==
    /\ ChainProvider(modelId) # Null
    /\ Truthy(getApiKey(ChainProvider(modelId), userId))

\* the while loop over attempts: the first participant from currentTurn on
\* (round robin) whose provider has a key
ScanParticipants_NoSkip(parts, turn, userId, attempts) ==
    IF attempts >= Len(parts) THEN NoModel
    ELSE LET testModelId == parts[(turn % Len(parts)) + 1]
         IN  IF HasKey(testModelId, userId) THEN testModelId ELSE NoModel

RECURSIVE ScanParticipants(_, _, _, _)
ScanParticipants(parts, turn, userId, attempts) ==
    IF attempts >= Len(parts) THEN NoModel
    ELSE LET testModelId == parts[((turn + attempts) % Len(parts)) + 1]
         IN  IF HasKey(testModelId, userId) THEN testModelId
             ELSE ScanParticipants(parts, turn, userId, attempts + 1)

SelectModel(parts, turn, userId) == ScanParticipants(parts, turn, userId, 0)

\* The synchronous part of continueConversationChain for a conversation whose
\* fields are (parts, msgs, turn, active) and a socket log evts: entry guard,
\* credential scan, history window, 'aiThinking', start of the adapter call.
\* if (!currentModelId) { isActive = false; emit conversationEnded; return }
EndNoModels_StaysActive(active, evts) ==
    /\ isActive' = active
    /\ emitted' = Append(evts, Emit("conversationEnded", ReasonNoModels))
    /\ UNCHANGED <<calls, models>>

EndNoModels(active, evts) ==
    /\ isActive' = FALSE
    /\ emitted' = Append(evts, Emit("conversationEnded", ReasonNoModels))
    /\ UNCHANGED <<calls, models>>

\* a turn step that calls the adapter without announcing the model
continueConversationChain_NoThinking(parts, msgs, turn, active, evts) ==
    LET currentModelId == SelectModel(parts, turn, sessionId)
    IN  /\ messages' = msgs
        /\ IF ~active
           THEN /\ isActive' = active
                /\ emitted' = evts
                /\ UNCHANGED <<calls, models>>
           ELSE IF currentModelId = NoModel
           THEN EndNoModels(active, evts)
           ELSE /\ isActive' = active
                /\ emitted' = evts
                /\ calls' = Append(calls,
                       [modelId |-> currentModelId,
                        history |-> getConversationHistory(msgs, HISTORY_LIMIT),
                        pre     |-> AdapterPrecheck(currentModelId, sessionId)])
                /\ models' = AdapterClients(currentModelId, sessionId, models)

continueConversationChain(parts, msgs, turn, active, evts) ==
    LET currentModelId == SelectModel(parts, turn, sessionId)
    IN  /\ messages' = msgs
        /\ IF ~active
           THEN /\ isActive' = active
                /\ emitted' = evts
                /\ UNCHANGED <<calls, models>>
           ELSE IF currentModelId = NoModel
           THEN EndNoModels(active, evts)
           ELSE /\ isActive' = active
                /\ emitted' = Append(evts, Emit("aiThinking", currentModelId))
                /\ calls' = Append(calls,
                       [modelId |-> currentModelId,
                        history |-> getConversationHistory(msgs, HISTORY_LIMIT),
                        pre     |-> AdapterPrecheck(currentModelId, sessionId)])
                /\ models' = AdapterClients(currentModelId, sessionId, models)

----------------------------------------------------------------------------
(* socket.on('startConversation') -> createConversation, startConversationChain *)

\* providers of known participants for which getApiKey finds nothing
missingKeys(parts) ==
    { ChainProvider(parts[i]) : i \in { j \in 1..Len(parts) :
          /\ ChainProvider(parts[j]) # Null
          /\ ~Truthy(getApiKey(ChainProvider(parts[j]), sessionId)) } }

\* the seed message startConversationChain pushes
initialMessage(initialPrompt) == Message("user", OrElse(initialPrompt, Hello))

StartConversation(parts, initialPrompt) ==
    /\ ~started
    /\ started' = TRUE
    /\ IF missingKeys(parts) # {}
       THEN /\ emitted' = Append(emitted, Emit("error", Null))
            /\ UNCHANGED <<exists, participants, messages, initialGoal, currentTurn,
                           isActive, emptyResponseCount, calls, models>>
       ELSE /\ exists' = TRUE
            /\ participants' = parts
            /\ initialGoal' = NullText
            /\ currentTurn' = 0
            /\ emptyResponseCount' = 0
            /\ continueConversationChain(parts, <<initialMessage(initialPrompt)>>, 0, TRUE,
                   emitted \o << Emit("conversationStarted", Null),
                                 Emit("newMessage", initialMessage(initialPrompt)) >>)
    /\ UNCHANGED <<ENV_API_KEYS, userApiKeys, keySets, timers, stops, reply, needleVars, probe>>

----------------------------------------------------------------------------
(* socket.on('stopConversation') -> ConversationManager.stopConversation *)

StopConversation_KeepsActive ==
    /\ stops < MaxStops
    /\ stops' = stops + 1
    /\ IF exists
       THEN /\ emitted' = Append(emitted, Emit("conversationEnded", ReasonUserStop))
            /\ UNCHANGED isActive
       ELSE UNCHANGED <<isActive, emitted>>
    /\ UNCHANGED <<keyVars, exists, participants, messages, initialGoal, currentTurn,
                   emptyResponseCount, calls, timers, started, reply, needleVars, probe>>

StopConversation ==
    /\ stops < MaxStops
    /\ stops' = stops + 1
    /\ IF exists
       THEN /\ isActive' = FALSE
            /\ emitted' = Append(emitted, Emit("conversationEnded", ReasonUserStop))
       ELSE UNCHANGED <<isActive, emitted>>
    /\ UNCHANGED <<keyVars, exists, participants, messages, initialGoal, currentTurn,
                   emptyResponseCount, calls, timers, started, reply, needleVars, probe>>

----------------------------------------------------------------------------
(* continueConversationChain, from the return of its await to its end *)

\* a ceiling test that lets the 5th empty response pass: emptyResponseCount > 5
EmptyLimitReached_Late(count) == count > MAX_EMPTY_RESPONSES

\* if (conversation.emptyResponseCount >= 5)
EmptyLimitReached(count) == count >= MAX_EMPTY_RESPONSES

\* error.message === 'Anthropic response content was empty ...'
IsEmptyContentError(result) == ~result.ok /\ result.message = AnthropicEmptyMessage

\* placeholder branches: the try branch (reason ReasonEmpty, timer "blank") and
\* the catch branch (reason ReasonEmptyFailed, timer "catch")
PlaceholderTurn_NoReturn(modelId, reason, timer) ==
    IF EmptyLimitReached(emptyResponseCount + 1)
    THEN /\ messages' = addMessage(messages, modelId, Placeholder)
         /\ initialGoal' = addMessageGoal(initialGoal, modelId, Placeholder)
         /\ emptyResponseCount' = emptyResponseCount + 1
         /\ isActive' = FALSE
         /\ emitted' = Append(emitted, Emit("conversationEnded", reason))
         /\ UNCHANGED <<currentTurn, timers>>
    ELSE /\ messages' = addMessage(addMessage(messages, modelId, Placeholder),
                                   modelId, Placeholder)
         /\ initialGoal' = addMessageGoal(initialGoal, modelId, Placeholder)
         /\ emptyResponseCount' = 0
         /\ emitted' = Append(emitted, Emit("newMessage", Message(modelId, Placeholder)))
         /\ currentTurn' = currentTurn + 2
         /\ timers' = timers \o <<timer, "success">>
         /\ UNCHANGED isActive

PlaceholderTurn(modelId, reason, timer) ==
    /\ messages' = addMessage(messages, modelId, Placeholder)
    /\ initialGoal' = addMessageGoal(initialGoal, modelId, Placeholder)
    /\ emptyResponseCount' = emptyResponseCount + 1
    /\ IF EmptyLimitReached(emptyResponseCount + 1)
       THEN /\ isActive' = FALSE
            /\ emitted' = Append(emitted, Emit("conversationEnded", reason))
            /\ UNCHANGED <<currentTurn, timers>>
       ELSE /\ currentTurn' = currentTurn + 1
            /\ timers' = Append(timers, timer)
            /\ UNCHANGED <<isActive, emitted>>

\* a success branch without conversation.emptyResponseCount = 0
MessageTurn_KeepsCount(modelId, responseText) ==
    /\ messages' = addMessage(messages, modelId, responseText)
    /\ initialGoal' = addMessageGoal(initialGoal, modelId, responseText)
    /\ emitted' = Append(emitted, Emit("newMessage", Message(modelId, responseText)))
    /\ currentTurn' = currentTurn + 1
    /\ timers' = Append(timers, "success")
    /\ UNCHANGED <<isActive, emptyResponseCount>>

\* a success branch without conversation.currentTurn++
MessageTurn_SameTurn(modelId, responseText) ==
    /\ emptyResponseCount' = 0
    /\ messages' = addMessage(messages, modelId, responseText)
    /\ initialGoal' = addMessageGoal(initialGoal, modelId, responseText)
    /\ emitted' = Append(emitted, Emit("newMessage", Message(modelId, responseText)))
    /\ timers' = Append(timers, "success")
    /\ UNCHANGED <<isActive, currentTurn>>

\* success branch with non-blank text
MessageTurn(modelId, responseText) ==
    /\ emptyResponseCount' = 0
    /\ messages' = addMessage(messages, modelId, responseText)
    /\ initialGoal' = addMessageGoal(initialGoal, modelId, responseText)
    /\ emitted' = Append(emitted, Emit("newMessage", Message(modelId, responseText)))
    /\ currentTurn' = currentTurn + 1
    /\ timers' = Append(timers, "success")
    /\ UNCHANGED isActive

\* a catch branch that notifies nobody
ErrorTurn_Silent(modelId) ==
    /\ currentTurn' = currentTurn + 1
    /\ timers' = Append(timers, "catch")
    /\ UNCHANGED <<messages, initialGoal, emptyResponseCount, isActive, emitted>>

\* catch branch for every other failure
ErrorTurn(modelId) ==
    /\ emitted' = Append(emitted, Emit("error", modelId))
    /\ currentTurn' = currentTurn + 1
    /\ timers' = Append(timers, "catch")
    /\ UNCHANGED <<messages, initialGoal, emptyResponseCount, isActive>>

\* the provider call calls[i] settles; r is the provider's reply
ProviderReturn(i, r) ==
    /\ i \in 1..Len(calls)
    /\ LET c == calls[i]
           result == generateResponseWithConfig(c.modelId, c.history, c.pre, r)
       IN  /\ IF c.pre = "ok"
              THEN /\ reply[c.modelId] \in {"unset", r}
                   /\ reply' = [reply EXCEPT ![c.modelId] = r]
              ELSE /\ r = "fail"
                   /\ UNCHANGED reply
           /\ calls' = RemoveAt(calls, i)
           /\ IF result.ok /\ IsBlank(result.text)
                 THEN PlaceholderTurn(c.modelId, ReasonEmpty, "blank")
              ELSE IF result.ok
                 THEN MessageTurn(c.modelId, result.text)
              ELSE IF IsEmptyContentError(result)
                 THEN PlaceholderTurn(c.modelId, ReasonEmptyFailed, "catch")
              ELSE ErrorTurn(c.modelId)
    /\ UNCHANGED <<keyVars, exists, participants, started, stops, needleVars, probe>>

----------------------------------------------------------------------------
(* the setTimeout callbacks of continueConversationChain *)

\* the condition under which the callback calls continueConversationChain
TimerContinues_NoActiveCheck(kind) ==
    /\ exists
    /\ (kind = "success" => Len(messages) < MAX_MESSAGES)

TimerContinues(kind) ==
    /\ exists
    /\ isActive
    /\ (kind = "success" => Len(messages) < MAX_MESSAGES)

TimerFire(i, cap) ==
    /\ i \in 1..Len(timers)
    /\ currentTurn < cap
    /\ timers' = RemoveAt(timers, i)
    /\ IF TimerContinues(timers[i])
       THEN continueConversationChain(participants, messages, currentTurn, isActive, emitted)
       ELSE IF timers[i] = "success" /\ exists /\ isActive
       THEN /\ isActive' = FALSE
            /\ emitted' = Append(emitted, Emit("conversationEnded", ReasonMessageLimit))
            /\ UNCHANGED <<messages, calls, models>>
       ELSE UNCHANGED <<messages, calls, models, isActive, emitted>>
    /\ UNCHANGED <<ENV_API_KEYS, userApiKeys, keySets, exists, participants, initialGoal,
                   currentTurn, emptyResponseCount, started, stops, reply, needleVars, probe>>

----------------------------------------------------------------------------

Next ==
    \/ \E parts \in ParticipantLists, initialPrompt \in Prompts :
           StartConversation(parts, initialPrompt)
    \/ StopConversation
    \/ \E i \in 1..Len(calls), r \in Replies : ProviderReturn(i, r)
    \/ \E i \in 1..Len(timers) : TimerFire(i, MaxTurns)

Spec == Init /\ [][Next]_vars

\* Runs in which the session also changes its stored keys while the conversation runs
NextKeys ==
    \/ \E provider \in Providers, apiKey \in UserKeys : SetApiKey(provider, apiKey)
    \/ \E parts \in ParticipantLists : StartConversation(parts, <<"h","i">>)
    \/ \E i \in 1..Len(calls), r \in Replies : ProviderReturn(i, r)
    \/ \E i \in 1..Len(timers) : TimerFire(i, MaxKeyTurns)

\* ... on a server where the session's own openai key is the only one for openai
InitKeys == Init /\ ENV_API_KEYS["openai"] = ""

SpecKeys == InitKeys /\ [][NextKeys]_vars

----------------------------------------------------------------------------
(* NeedleTestManager.checkExactMatch *)

UpperCase == <<"A","B","C","D","E","F","G","H","I","J","K","L","M",
               "N","O","P","Q","R","S","T","U","V","W","X","Y","Z">>
LowerCase == <<"a","b","c","d","e","f","g","h","i","j","k","l","m",
               "n","o","p","q","r","s","t","u","v","w","x","y","z">>
Digits    == {"0","1","2","3","4","5","6","7","8","9"}

ToLowerChar(c) ==
    IF \E i \in 1..26 : UpperCase[i] = c
    THEN LowerCase[CHOOSE i \in 1..26 : UpperCase[i] = c]
    ELSE c

toLowerCase(s) == [i \in 1..Len(s) |-> ToLowerChar(s[i])]

\* \w of a JavaScript regular expression
IsWordChar(c) ==
    \/ \E i \in 1..26 : UpperCase[i] = c \/ LowerCase[i] = c
    \/ c \in Digits
    \/ c = "_"

\* the characters .replace(/[.*+?^${}()|[\]\\]/g, '\\$&') escapes
RegexSpecial == {".", "*", "+", "?", "^", "$", "{", "}", "(", ")", "|", "[", "]", "\\"}

RECURSIVE EscapeRegex(_)
EscapeRegex(s) ==
    IF s = <<>> THEN <<>>
    ELSE IF Head(s) \in RegexSpecial
         THEN <<"\\", Head(s)>> \o EscapeRegex(Tail(s))
         ELSE <<Head(s)>> \o EscapeRegex(Tail(s))

\* the literal an escaped pattern source stands for: "\c" matches c
RECURSIVE PatternLiteral(_)
PatternLiteral(src) ==
    IF src = <<>> THEN <<>>
    ELSE IF Head(src) = "\\" /\ Len(src) >= 2
         THEN <<src[2]>> \o PatternLiteral(SubSeq(src, 3, Len(src)))
         ELSE <<Head(src)>> \o PatternLiteral(Tail(src))

\* \b at position k of s: between s[k] and s[k+1], the ends counting as non-word
WordBoundary(s, k) ==
    LET before == k >= 1 /\ k <= Len(s) /\ IsWordChar(s[k])
        after  == k + 1 >= 1 /\ k + 1 <= Len(s) /\ IsWordChar(s[k + 1])
    IN  before # after

\* new RegExp(`\\b${escaped}\\b`, 'i').test(text)
WordBoundaryTest(patternSource, text) ==
    LET lit == toLowerCase(PatternLiteral(patternSource))
        low == toLowerCase(text)
    IN  \E k \in 0..(Len(low) - Len(lit)) :
            /\ SubSeq(low, k + 1, k + Len(lit)) = lit
            /\ WordBoundary(low, k)
            /\ WordBoundary(low, k + Len(lit))

checkExactMatch(response, target) ==
    IF response = <<>> \/ response = NullText \/ target = <<>> THEN FALSE
    ELSE LET cleanResponse   == Trim(response)
             cleanExactMatch == Trim(target)
         IN  IF cleanResponse = <<>> \/ cleanExactMatch = <<>> THEN FALSE
             ELSE WordBoundaryTest(EscapeRegex(toLowerCase(cleanExactMatch)),
                                   toLowerCase(cleanResponse))

\* checkExactMatch applied to one response and one target
MatchAlphabet == {"a", "A", ".", " "}

Texts(alphabet, n) == UNION { [1..k -> alphabet] : k \in 0..n }

\* the two examples of the comment and of the README's exact-match feature
MatchExamples ==
    { << <<"a","9","1","5","6","0","9","a">>, <<"1","5","6","0","9">> >>,
      << <<"T","h","e"," ","c","o","d","e"," ","i","s"," ","A","B","C","1","2","3",".">>, <<"a","b","c","1","2","3">> >> }

MatchInputs ==
    (Texts(MatchAlphabet, MaxResponseLen) \X Texts(MatchAlphabet, MaxTargetLen))
        \cup MatchExamples

\* a server without credentials on which nothing else happens
InitQuiet ==
    /\ InitServer
    /\ ENV_API_KEYS = [p \in Providers |-> ""]
    /\ userApiKeys = SeededKeys(<<>>)

InitMatch ==
    /\ InitQuiet
    /\ \E pair \in MatchInputs :
           probe = [fn |-> "checkExactMatch", response |-> pair[1], target |-> pair[2],
                    applied |-> FALSE, result |-> FALSE]

ApplyCheckExactMatch ==
    /\ probe.fn = "checkExactMatch"
    /\ ~probe.applied
    /\ probe' = [probe EXCEPT !.applied = TRUE,
                              !.result = checkExactMatch(probe.response, probe.target)]
    /\ UNCHANGED <<keyVars, convVars, needleVars, reply, emitted>>

NextMatch == ApplyCheckExactMatch

SpecMatch == InitMatch /\ [][NextMatch]_vars

----------------------------------------------------------------------------
(* AIModelManager.generateClaudeResponse: the message list it sends *)

GeneralDiscussion == <<"G","e","n","e","r","a","l"," ","d","i","s","c","u","s","s","i","o","n">>
ContinuePrompt    == <<"P","l","e","a","s","e"," ","c","o","n","t","i","n","u","e"," ","t","h","e"," ","c","o","n","v","e","r","s","a","t","i","o","n",".">>

\* String.prototype.includes
Includes(s, sub) ==
    \E k \in 0..(Len(s) - Len(sub)) : SubSeq(s, k + 1, k + Len(sub)) = sub

\* messages.find(msg => msg.provider === 'user')?.content || 'General discussion'
ClaudeInitialPrompt(history) ==
    LET users == SelectSeq(history, LAMBDA msg : msg.provider = "user")
    IN  IF users # <<>> /\ users[1].content # <<>> THEN users[1].content
        ELSE GeneralDiscussion

\* messages.filter(msg => msg.content && !msg.content.includes(placeholder))
ClaudeFiltered(history) ==
    SelectSeq(history, LAMBDA msg : msg.content # <<>> /\ ~Includes(msg.content, Placeholder))

ClaudeRole(role) == IF role = "ai" THEN "assistant" ELSE role

\* the for loop over filteredMessages[1..]: merge into the last entry or push
RECURSIVE ClaudeMerge(_, _)
ClaudeMerge(processed, rest) ==
    IF rest = <<>> THEN processed
    ELSE LET currentMessage == Head(rest)
             last           == processed[Len(processed)]
             currentRole    == ClaudeRole(currentMessage.role)
         IN  IF currentRole = last.role /\ currentRole \in {"assistant", "user"}
             THEN ClaudeMerge(
                      [processed EXCEPT ![Len(processed)].content =
                           last.content \o <<"\n", "\n">> \o currentMessage.content],
                      Tail(rest))
             ELSE ClaudeMerge(
                      Append(processed, [role |-> currentRole,
                                         content |-> currentMessage.content]),
                      Tail(rest))

\* formattedMessages of the messages.create request
ClaudeMessages(history) ==
    LET filtered  == ClaudeFiltered(history)
        processed ==
            IF filtered = <<>> THEN <<>>
            ELSE ClaudeMerge(<< [role    |-> ClaudeRole(filtered[1].role),
                                 content |-> filtered[1].content] >>,
                             Tail(filtered))
        defaulted ==
            IF processed = <<>>
            THEN << [role |-> "user", content |-> ClaudeInitialPrompt(history)] >>
            ELSE processed
    IN  IF defaulted[Len(defaulted)].role = "assistant"
        THEN Append(defaulted, [role |-> "user", content |-> ContinuePrompt])
        ELSE defaulted

\* contents of the histories: empty, two texts, the placeholder, text around it
ClaudeContents == { <<>>, <<"a">>, <<"b">>, Placeholder, <<"a">> \o Placeholder }

ClaudeAuthors == {"user", "claude-3-opus"}

ClaudeHistories ==
    UNION { [1..k -> { Message(author, content) :
                         author \in ClaudeAuthors, content \in ClaudeContents }]
            : k \in 0..MaxHistoryLen }

InitClaude ==
    /\ InitQuiet
    /\ \E history \in ClaudeHistories :
           probe = [fn |-> "generateClaudeResponse", history |-> history,
                    applied |-> FALSE, result |-> <<>>]

ApplyClaudeMessages ==
    /\ probe.fn = "generateClaudeResponse"
    /\ ~probe.applied
    /\ probe' = [probe EXCEPT !.applied = TRUE,
                              !.result = ClaudeMessages(probe.history)]
    /\ UNCHANGED <<keyVars, convVars, needleVars, reply, emitted>>

NextClaude == ApplyClaudeMessages

SpecClaude == InitClaude /\ [][NextClaude]_vars

----------------------------------------------------------------------------
(* AIModelManager.generateOpenAIResponse: extraction applied to one reply *)

\* the text each field carries when it carries one (distinct, to tell them apart)
ShapeText ==
    [output_text |-> <<"1">>, text_content |-> <<"2">>, output0 |-> <<"3">>,
     choices_text |-> <<"4">>, choices_message |-> <<"5">>,
     output_obj |-> <<"6">>, content |-> <<"7">>]

ShapeNames == DOMAIN ShapeText

\* replies: any set of fields carrying text; choices[0] is there when one of
\* its fields carries text and may be there without; output is an array or
\* an object, not both
ResponsesReplies ==
    { [output_text     |-> IF "output_text" \in carried THEN ShapeText.output_text ELSE NoText,
       text_content    |-> IF "text_content" \in carried THEN ShapeText.text_content ELSE NoText,
       output0         |-> IF "output0" \in carried THEN ShapeText.output0 ELSE NoText,
       choices0        |-> bare \/ "choices_text" \in carried \/ "choices_message" \in carried,
       choices_text    |-> IF "choices_text" \in carried THEN ShapeText.choices_text ELSE NoText,
       choices_message |-> IF "choices_message" \in carried
                              THEN ShapeText.choices_message ELSE NoText,
       output_obj      |-> IF "output_obj" \in carried THEN ShapeText.output_obj ELSE NoText,
       content         |-> IF "content" \in carried THEN ShapeText.content ELSE NoText]
      : carried \in { c \in SUBSET ShapeNames : ~({"output0", "output_obj"} \subseteq c) },
        bare \in BOOLEAN }

InitExtract ==
    /\ InitQuiet
    /\ \E response \in ResponsesReplies :
           probe = [fn |-> "generateOpenAIResponse", response |-> response,
                    applied |-> FALSE, result |-> Err("")]

ApplyExtractResponsesText ==
    /\ probe.fn = "generateOpenAIResponse"
    /\ ~probe.applied
    /\ probe' = [probe EXCEPT !.applied = TRUE,
                              !.result = ExtractResponsesText(probe.response)]
    /\ UNCHANGED <<keyVars, convVars, needleVars, reply, emitted>>

NextExtract == ApplyExtractResponsesText

SpecExtract == InitExtract /\ [][NextExtract]_vars

----------------------------------------------------------------------------
(* Generation parameters: from the caller's config to the provider request. *)
(* Temperatures are counted in tenths (7 is 0.7).  A field is <<>> when it   *)
(* is not there and <<v>> when it holds v.                                   *)

DefaultTemperature  == 7      \* defaultConfig.temperature, and every `|| 0.7`
DefaultMaxTokens    == 1000   \* defaultConfig.maxTokens
ChatMaxTokens       == 1000   \* config.maxTokens || 1000
ResponsesMaxTokens  == 2048   \* config.maxTokens || 2048
ClaudeMaxTokens     == 1024   \* config.maxTokens || 1024

Unset   == <<>>
NotSent == <<>>

\* { ...defaultConfig, ...config }
FinalConfig(config) ==
    [temperature |-> IF config.temperature = Unset THEN <<DefaultTemperature>>
                     ELSE config.temperature,
     maxTokens   |-> IF config.maxTokens = Unset THEN <<DefaultMaxTokens>>
                     ELSE config.maxTokens]

\* field || default: undefined and 0 are both falsy
Configured(field, default) ==
    IF field = Unset \/ field = <<0>> THEN <<default>> ELSE field

\* !['o3', 'o1', 'gpt-4.1', 'gpt-4.1-nano'].includes(model)
SupportsTemperature(modelId) == modelId \notin {"o3", "gpt-4.1"}

\* the generation parameters of the request the adapter sends for modelId
RequestParams(modelId, config) ==
    LET finalConfig == FinalConfig(config)
    IN  CASE AdapterProvider(modelId) = "openai" /\ AdapterApiType(modelId) = "responses" ->
                 [temperature |-> IF SupportsTemperature(modelId)
                                  THEN Configured(finalConfig.temperature, DefaultTemperature)
                                  ELSE NotSent,
                  maxTokens   |-> Configured(finalConfig.maxTokens, ResponsesMaxTokens)]
          [] AdapterProvider(modelId) = "openai" /\ AdapterApiType(modelId) = "chat" ->
                 [temperature |-> Configured(finalConfig.temperature, DefaultTemperature),
                  maxTokens   |-> Configured(finalConfig.maxTokens, ChatMaxTokens)]
          [] AdapterProvider(modelId) = "google" ->
                 [temperature |-> NotSent, maxTokens |-> NotSent]
          [] AdapterProvider(modelId) = "anthropic" ->
                 [temperature |-> Configured(finalConfig.temperature, DefaultTemperature),
                  maxTokens   |-> Configured(finalConfig.maxTokens, ClaudeMaxTokens)]

\* configs: each field left out or set to a value of its range
Temperatures == { Unset, <<0>>, <<5>>, <<10>> }
TokenLimits  == { Unset, <<1>>, <<500>>, <<4000>> }
Configs      == [temperature : Temperatures, maxTokens : TokenLimits]

ConfigModels == {"gpt-4", "o3", "gemini-1.5-pro", "claude-3-opus"}

InitConfig ==
    /\ InitQuiet
    /\ \E modelId \in ConfigModels, config \in Configs :
           probe = [fn |-> "generateResponseWithConfig", modelId |-> modelId,
                    config |-> config, applied |-> FALSE,
                    result |-> [temperature |-> NotSent, maxTokens |-> NotSent]]

ApplyRequestParams ==
    /\ probe.fn = "generateResponseWithConfig"
    /\ ~probe.applied
    /\ probe' = [probe EXCEPT !.applied = TRUE,
                              !.result = RequestParams(probe.modelId, probe.config)]
    /\ UNCHANGED <<keyVars, convVars, needleVars, reply, emitted>>

NextConfig == ApplyRequestParams

SpecConfig == InitConfig /\ [][NextConfig]_vars

----------------------------------------------------------------------------
(* NeedleTestManager.runNeedleTest *)

NeedleModelLists ==
    { <<>>,
      <<"gpt-4">>,
      <<"gpt-4", "claude-3-opus">>,
      <<"gpt-4", "gemini-1.5-pro", "claude-3-opus">>,
      <<"o3", "gemini-1.0-pro", "gpt-4">>,
      <<"constructor", "gpt-4">>,
      <<"claude-3-opus", "claude-3-opus">> }

ExactMatches == { <<>>, <<"o","k">>, <<"O","K">>, <<"k">> }

\* `${needle}\n\nContext document:\n${haystack}` for the needle and haystack of the model
NeedlePrompt == <<"q", "?", "\n", "\n", "c", "t", "x", ":", "\n", "h", "a", "y">>

\* the part of one models.map task that runs before its await
NeedleTask(modelId) ==
    [modelId |-> modelId,
     pre     |-> AdapterPrecheck(modelId, sessionId),
     state   |-> "awaiting",
     settled |-> Err("")]     \* what the adapter call settled with, once done

\* this.models after the adapter calls of the first n tasks
RECURSIVE NeedleClients(_, _)
NeedleClients(modelList, n) ==
    IF n = 0 THEN models
    ELSE AdapterClients(modelList[n], sessionId, NeedleClients(modelList, n - 1))

\* runNeedleTest up to `await Promise.all(testPromises)`
RunNeedleTest(modelList, target) ==
    /\ testState = "idle"
    /\ testState' = "running"
    /\ activeTests' = TRUE
    /\ exactMatch' = target
    /\ results' = [m \in {} |-> 0]
    /\ tasks' = [i \in 1..Len(modelList) |-> NeedleTask(modelList[i])]
    /\ models' = NeedleClients(modelList, Len(modelList))
    /\ emitted' = emitted \o [i \in 1..Len(modelList) |-> Emit("aiThinking", modelList[i])]
    /\ UNCHANGED <<ENV_API_KEYS, userApiKeys, keySets, convVars, reply, probe>>

NeedleResult(modelId, response) ==
    [modelId     |-> modelId,
     response    |-> response,
     foundNeedle |-> checkExactMatch(response, exactMatch)]

\* test.results.set(modelConfig.modelId, result), when the test is still registered
SetResult(map, modelId, result) ==
    IF activeTests
    THEN [m \in DOMAIN map \cup {modelId} |-> IF m = modelId THEN result ELSE map[m]]
    ELSE map

\* try: socket.emit('needleTestResult', result); catch: socket.emit('needleTestError', ...)
NeedleOutcomeEvents_NoCatch(modelId, result) ==
    IF result.ok
    THEN << Emit("needleTestResult", NeedleResult(modelId, result.text)) >>
    ELSE << >>

NeedleOutcomeEvents(modelId, result) ==
    IF result.ok
    THEN << Emit("needleTestResult", NeedleResult(modelId, result.text)) >>
    ELSE << Emit("needleTestError", modelId) >>

\* the adapter call of task i settles with the provider's reply r: rest of the task
NeedleSettle(i, r) ==
    /\ i \in 1..Len(tasks)
    /\ tasks[i].state = "awaiting"
    /\ tasks[i].pre # "ok" => r = "fail"
    /\ LET t == tasks[i]
           result == generateResponseWithConfig(t.modelId,
                         <<Message("user", NeedlePrompt)>>, t.pre, r)
       IN  /\ emitted' = emitted \o NeedleOutcomeEvents(t.modelId, result)
           /\ results' = IF result.ok
                          THEN SetResult(results, t.modelId,
                                         NeedleResult(t.modelId, result.text))
                          ELSE results
           /\ tasks' = [tasks EXCEPT ![i].state = "done", ![i].settled = result]
    /\ UNCHANGED <<keyVars, convVars, reply, activeTests, exactMatch, testState, probe>>

\* Promise.all resolves once every task has settled
AllSettled_Race(ts) == Len(ts) = 0 \/ \E i \in 1..Len(ts) : ts[i].state = "done"

AllSettled(ts) == \A i \in 1..Len(ts) : ts[i].state = "done"

\* runNeedleTest after `await Promise.all(testPromises)`
NeedleComplete ==
    /\ testState = "running"
    /\ AllSettled(tasks)
    /\ testState' = "complete"
    /\ emitted' = Append(emitted, Emit("allTestsComplete", Null))
    /\ activeTests' = FALSE
    /\ UNCHANGED <<keyVars, convVars, reply, exactMatch, tasks, results, probe>>

NextNeedle ==
    \/ \E modelList \in NeedleModelLists, target \in ExactMatches :
           RunNeedleTest(modelList, target)
    \/ \E i \in 1..Len(tasks), r \in Replies : NeedleSettle(i, r)
    \/ NeedleComplete

SpecNeedle == Init /\ [][NextNeedle]_vars

----------------------------------------------------------------------------
(* Runs in which a provider may never answer.  The code sets no timer on an *)
(* adapter call: its only setTimeout calls schedule the next turn.  A model  *)
(* whose provider hangs is marked in reply; its pending call never settles.  *)

ProviderHangs(modelId) ==
    /\ reply[modelId] = "unset"
    /\ \/ \E i \in 1..Len(calls) : calls[i].modelId = modelId /\ calls[i].pre = "ok"
       \/ \E i \in 1..Len(tasks) :
              /\ tasks[i].modelId = modelId
              /\ tasks[i].pre = "ok"
              /\ tasks[i].state = "awaiting"
    /\ reply' = [reply EXCEPT ![modelId] = "hang"]
    /\ UNCHANGED <<keyVars, convVars, needleVars, emitted, probe>>

\* the adapter call of task i settles, which it does only if its provider answers
NeedleSettleAnswered(i, r) ==
    /\ i \in 1..Len(tasks)
    /\ tasks[i].pre = "ok" => reply[tasks[i].modelId] # "hang"
    /\ NeedleSettle(i, r)

NextHang ==
    \/ \E parts \in ParticipantLists :
           testState = "idle" /\ StartConversation(parts, <<"h","i">>)
    \/ \E i \in 1..Len(calls), r \in Replies : ProviderReturn(i, r)
    \/ \E i \in 1..Len(timers) : TimerFire(i, MaxKeyTurns)
    \/ \E modelList \in NeedleModelLists :
           ~started /\ RunNeedleTest(modelList, <<>>)
    \/ \E i \in 1..Len(tasks), r \in Replies : NeedleSettleAnswered(i, r)
    \/ NeedleComplete
    \/ \E modelId \in AllModels : ProviderHangs(modelId)

\* the event loop runs every callback that is ready: a settled promise's
\* continuation and an expired timer's callback are not postponed for ever
AnsweredStep ==
    \/ \E i \in 1..Len(calls), r \in Replies : ProviderReturn(i, r)
    \/ \E i \in 1..Len(timers) : TimerFire(i, MaxKeyTurns)
    \/ \E i \in 1..Len(tasks), r \in Replies : NeedleSettleAnswered(i, r)
    \/ NeedleComplete

FairHang == WF_vars(AnsweredStep)

SpecHang == Init /\ [][NextHang]_vars /\ FairHang

----------------------------------------------------------------------------
(* Conversations that run without a bound on their turns *)

\* Two fields of a running conversation grow for ever: currentTurn and the log
\* of emitted events. The credential scan reads currentTurn only modulo
\* participants.length (modelIndex) and nothing reads the log, so a state and
\* the state with currentTurn reduced by participants.length and the log cut
\* to its last event have the same future. Reduce takes the second for the
\* first, which makes the infinite runs of a conversation finite cycles.
Reduce ==
    /\ exists
    /\ Len(participants) > 0
    /\ currentTurn >= Len(participants)
    /\ currentTurn' = currentTurn - Len(participants)
    /\ emitted' = <<emitted[Len(emitted)]>>
    /\ UNCHANGED <<keyVars, exists, participants, messages, initialGoal, isActive,
                   emptyResponseCount, calls, timers, started, stops, reply,
                   needleVars, probe>>

NextLive ==
    \/ \E parts \in ParticipantLists : StartConversation(parts, <<"h","i">>)
    \/ StopConversation
    \/ \E i \in 1..Len(calls), r \in Replies : ProviderReturn(i, r)
    \/ \E i \in 1..Len(timers) : TimerFire(i, MaxLiveTurns)
    \/ Reduce

\* every provider call returns, every expired timer's callback runs
FairLive ==
    /\ WF_vars(\E i \in 1..Len(calls), r \in Replies : ProviderReturn(i, r))
    /\ WF_vars(\E i \in 1..Len(timers) : TimerFire(i, MaxLiveTurns))
    /\ WF_vars(Reduce)

SpecLive == Init /\ [][NextLive]_vars /\ FairLive

----------------------------------------------------------------------------
(* Properties of the needle-test run *)

IsOutcome(e) == e.event \in {"needleTestResult", "needleTestError"}

\* the model id an outcome event carries
OutcomeModel(e) == IF e.event = "needleTestResult" THEN e.arg.modelId ELSE e.arg

OutcomeEvents == { j \in 1..Len(emitted) : IsOutcome(emitted[j]) }

OutcomesOf(modelId) == { j \in OutcomeEvents : OutcomeModel(emitted[j]) = modelId }

TasksOf(modelId) == { i \in 1..Len(tasks) : tasks[i].modelId = modelId }

DoneTasksOf(modelId) == { i \in TasksOf(modelId) : tasks[i].state = "done" }

\* C1: a needle-test run emits 'allTestsComplete' at most once, only in the
\* completed run, and only after every entry of the model list has produced
\* its result or error event (for the empty list: after zero such events);
\* and once every task has settled the completion is not held back.
C1_OneCompletionAfterAllOutcomes ==
    /\ Count(emitted, "allTestsComplete") <= 1
    /\ (testState = "complete") <=> (Count(emitted, "allTestsComplete") = 1)
    /\ \A j \in 1..Len(emitted) :
           emitted[j].event = "allTestsComplete" =>
               /\ Cardinality(OutcomeEvents) = Len(tasks)
               /\ \A k \in OutcomeEvents : k < j
    /\ (testState = "running" /\ AllSettled(tasks)) => ENABLED NeedleComplete

C1_Witness ==
    /\ testState = "complete"
    /\ Len(tasks) = 3
    /\ \E j \in OutcomeEvents : emitted[j].event = "needleTestError"
    /\ \E j \in OutcomeEvents : emitted[j].event = "needleTestResult"

\* C2: every entry of the model list is dispatched once ('aiThinking', one
\* adapter call) and, once its call has settled, has exactly one outcome
\* event: 'needleTestResult' with the returned text if the call succeeded,
\* 'needleTestError' with its model id if it failed; a failed precheck
\* (unknown model, missing credential) is such a failure. This holds for
\* every combination of the other entries' outcomes.
C2_OneOutcomePerEntry ==
    testState # "idle" =>
        /\ \A m \in AllModels \cup {"gemini-1.0-pro"} :
               /\ Cardinality(OutcomesOf(m)) = Cardinality(DoneTasksOf(m))
               /\ Cardinality({ j \in 1..Len(emitted) :
                      emitted[j].event = "aiThinking" /\ emitted[j].arg = m })
                      = Cardinality(TasksOf(m))
        /\ \A i \in 1..Len(tasks) :
               tasks[i].state = "done" =>
                   /\ tasks[i].pre # "ok" => ~tasks[i].settled.ok
                   /\ IF tasks[i].settled.ok
                      THEN \E j \in OutcomesOf(tasks[i].modelId) :
                               /\ emitted[j].event = "needleTestResult"
                               /\ emitted[j].arg.response = tasks[i].settled.text
                      ELSE \E j \in OutcomesOf(tasks[i].modelId) :
                               emitted[j].event = "needleTestError"
        /\ \A m \in AllModels \cup {"gemini-1.0-pro"} :
               Cardinality({ j \in OutcomesOf(m) : emitted[j].event = "needleTestError" })
                   = Cardinality({ i \in DoneTasksOf(m) : ~tasks[i].settled.ok })

C2_Witness ==
    /\ testState = "complete"
    /\ Len(tasks) = 3
    /\ Cardinality({ i \in 1..3 : tasks[i].settled.message = TransportMessage }) = 1
    /\ Cardinality({ i \in 1..3 : tasks[i].settled.ok }) = 2
    /\ Cardinality({ j \in OutcomeEvents : emitted[j].event = "needleTestResult" }) = 2

----------------------------------------------------------------------------
(* Properties of the conversation chain *)

EndedWith(reason) ==
    { j \in 1..Len(emitted) :
          emitted[j].event = "conversationEnded" /\ emitted[j].arg = reason }

\* C3: at most one provider call of the conversation is in flight, and the
\* timer of the next turn step is pending only when no call is in flight
\* (the previous turn step has appended and advanced before the next starts).
C3_OneCallInFlight ==
    /\ Len(calls) <= 1
    /\ Len(calls) + Len(timers) <= 1

C3_Witness ==
    /\ Len(calls) = 1
    /\ stops = 1
    /\ ~isActive
    /\ currentTurn >= 2

\* C4 (as claimed): once 5 empty responses have been counted the conversation
\* is inactive, exactly one 'conversationEnded' with reason "Too many
\* empty/failed responses" has been emitted, and no further call or timer exists.
C4_Claim ==
    emptyResponseCount >= MAX_EMPTY_RESPONSES =>
        /\ ~isActive
        /\ calls = <<>>
        /\ timers = <<>>
        /\ Cardinality(EndedWith(ReasonEmptyFailed)) = 1

\* C5 (as claimed): once the transcript holds 30 messages no provider call is
\* in flight, whatever kind of message was the 30th.
C5_Claim ==
    Len(messages) >= MAX_MESSAGES => calls = <<>>

\* C6 (as claimed): the transcript never holds more than 30 messages.
C6_Claim ==
    Len(messages) <= MAX_MESSAGES

\* C7: once the conversation is inactive it stays inactive and no provider
\* call is started for it; a stop request leaves the calls in flight alone.
C7_TerminalAbsorbing ==
    [][ /\ (exists /\ ~isActive) => (~isActive' /\ Len(calls') <= Len(calls))
        /\ (stops' # stops) => (calls' = calls /\ (exists => ~isActive')) ]_vars

\* a reply that arrived after the stop request was appended, and its timer
\* has fired without starting a turn
C7_Witness ==
    /\ exists /\ ~isActive
    /\ calls = <<>> /\ timers = <<>>
    /\ \E j \in EndedWith(ReasonUserStop) :
           \E k \in (j + 1)..Len(emitted) :
               emitted[k].event = "newMessage" /\ emitted[k].arg.role = "ai"

OnlyLastHasKey ==
    /\ exists
    /\ Len(participants) = 3
    /\ ~HasKey(participants[1], sessionId)
    /\ ~HasKey(participants[2], sessionId)
    /\ HasKey(participants[3], sessionId)

AlwaysSelectsLast ==
    OnlyLastHasKey =>
        /\ \A i \in 1..Len(calls) : calls[i].modelId = participants[3]
        /\ \A j \in 1..Len(emitted) :
               emitted[j].event = "aiThinking" => emitted[j].arg = participants[3]
        /\ EndedWith(ReasonNoModels) = {}

NoModelAtTimer ==
    /\ Len(timers') < Len(timers)
    /\ TimerContinues(timers[1])
    /\ SelectModel(participants, currentTurn, sessionId) = NoModel

NoModelAtStart ==
    /\ ~exists /\ exists'
    /\ SelectModel(participants', 0, sessionId) = NoModel

\* C9: a turn step that finds no participant with a resolvable key makes the
\* conversation inactive, emits one 'conversationEnded' with reason "No models
\* with API keys available", starts no provider call, initialises no client,
\* emits no 'aiThinking', and leaves currentTurn, the transcript and the
\* empty-response counter as they were.
C9_NoCredentialEnds ==
    /\ [](Cardinality(EndedWith(ReasonNoModels)) <= 1)
    /\ [][ /\ NoModelAtTimer =>
                /\ ~isActive'
                /\ emitted' = Append(emitted, Emit("conversationEnded", ReasonNoModels))
                /\ calls' = calls
                /\ models' = models
                /\ currentTurn' = currentTurn
                /\ messages' = messages
                /\ emptyResponseCount' = emptyResponseCount
           /\ NoModelAtStart =>
                /\ ~isActive'
                /\ emitted'[Len(emitted')] = Emit("conversationEnded", ReasonNoModels)
                /\ Count(emitted', "aiThinking") = 0
                /\ calls' = <<>>
                /\ models' = models
                /\ currentTurn' = 0
                /\ Len(messages') = 1
                /\ emptyResponseCount' = 0 ]_vars

\* the key of the only credentialed participant was withdrawn while the
\* conversation ran
C9_Witness ==
    /\ EndedWith(ReasonNoModels) # {}
    /\ ~isActive
    /\ currentTurn >= 1
    /\ Len(messages) >= 2
    /\ keySets = 1

----------------------------------------------------------------------------
(* C11: once a conversation has started (its seed message is in the          *)
(* transcript), initialGoal is the content of the first user-authored        *)
(* message, the seed prompt; in particular it is not null.                   *)
C11_Claim ==
    (exists /\ messages # <<>>) =>
        /\ initialGoal # NullText
        /\ initialGoal = messages[1].content

----------------------------------------------------------------------------
(* C12: the participants list of a conversation never changes after its      *)
(* creation, and every conversation created through startConversation has a  *)
(* non-empty participants list.                                              *)
C12_Claim ==
    /\ [][exists => participants' = participants]_vars
    /\ [](exists => participants # <<>>)

----------------------------------------------------------------------------
(* C13: getApiKey returns the environment key of the provider whenever one   *)
(* is configured, whatever the session has stored with setApiKey; without an *)
(* environment key it returns the key the session stored for that provider;  *)
(* with neither it returns null.                                             *)
HasStoredKey(provider, userId) ==
    userId \in DOMAIN userApiKeys /\ userApiKeys[userId][provider] # NoStoredKey

\* the plaintext the session handed to setApiKey for the provider
StoredPlaintext(provider, userId) == userApiKeys[userId][provider][2]

C13_EnvKeyPreferred ==
    \A provider \in Providers :
        /\ ENV_API_KEYS[provider] # "" =>
               getApiKey(provider, sessionId) = ENV_API_KEYS[provider]
        /\ (ENV_API_KEYS[provider] = "" /\ HasStoredKey(provider, sessionId)) =>
               getApiKey(provider, sessionId) = StoredPlaintext(provider, sessionId)
        /\ (ENV_API_KEYS[provider] = "" /\ ~HasStoredKey(provider, sessionId)) =>
               getApiKey(provider, sessionId) = Null

\* one store in which the three cases occur together: an environment key
\* shadowing a different stored key, a stored key alone, and neither
C13_Witness ==
    /\ ENV_API_KEYS["anthropic"] # ""
    /\ HasStoredKey("anthropic", sessionId)
    /\ StoredPlaintext("anthropic", sessionId) # ENV_API_KEYS["anthropic"]
    /\ getApiKey("anthropic", sessionId) = ENV_API_KEYS["anthropic"]
    /\ ENV_API_KEYS["openai"] = ""
    /\ HasStoredKey("openai", sessionId)
    /\ getApiKey("openai", sessionId) = "user-key"
    /\ ENV_API_KEYS["google"] = ""
    /\ ~HasStoredKey("google", sessionId)
    /\ getApiKey("google", sessionId) = Null

----------------------------------------------------------------------------
(* C14: a generateResponseWithConfig call with a model id that is no entry   *)
(* of the registry fails with the unknown-model error, whether or not a      *)
(* credential exists; with a registered model and no resolvable credential   *)
(* it fails with the missing-credential error; in both cases no provider     *)
(* client is (re)initialised.                                                *)
Registered(modelId) == AdapterProvider(modelId) # Null

NoCredential(modelId) ==
    Registered(modelId) /\ ~Truthy(getApiKey(AdapterProvider(modelId), sessionId))

C14_FailureKinds ==
    \A i \in 1..Len(tasks) :
        tasks[i].state = "done" =>
            /\ ~Registered(tasks[i].modelId) =>
                   tasks[i].settled = Err(UnknownModelMessage)
            /\ NoCredential(tasks[i].modelId) =>
                   tasks[i].settled = Err(NoApiKeyMessage)

C14_ClientsKept ==
    (testState = "idle" /\ testState' = "running") =>
        \A provider \in Providers :
            (\A i \in 1..Len(tasks') :
                 AdapterProvider(tasks'[i].modelId) = provider =>
                     NoCredential(tasks'[i].modelId))
            => models'[provider] = models[provider]

C14_Claim == []C14_FailureKinds /\ [][C14_ClientsKept]_vars

----------------------------------------------------------------------------
(* C15: checkExactMatch(response, target) is true exactly when the trimmed   *)
(* target occurs in the trimmed response, compared case-insensitively, as a  *)
(* whole word, that is, at a place where it is not part of a longer run of   *)
(* word characters; it is false when either argument is empty after trimming.*)
WholeWordAt(low, lit, k) ==
    /\ SubSeq(low, k + 1, k + Len(lit)) = lit
    /\ ~(k >= 1 /\ IsWordChar(low[k]) /\ IsWordChar(lit[1]))
    /\ ~(/\ k + Len(lit) < Len(low)
         /\ IsWordChar(low[k + Len(lit) + 1])
         /\ IsWordChar(lit[Len(lit)]))

OccursAsWholeWord(response, target) ==
    LET low == toLowerCase(Trim(response))
        lit == toLowerCase(Trim(target))
    IN  /\ low # <<>>
        /\ lit # <<>>
        /\ \E k \in 0..(Len(low) - Len(lit)) : WholeWordAt(low, lit, k)

C15_Claim ==
    (probe.fn = "checkExactMatch" /\ probe.applied) =>
        probe.result = OccursAsWholeWord(probe.response, probe.target)

----------------------------------------------------------------------------
(* C16: for every history, the message list generateClaudeResponse sends is  *)
(* non-empty, holds no message with the placeholder text, has no two         *)
(* adjacent entries of the same role, and ends with a user entry (the        *)
(* synthetic continuation prompt when the processed history ends with an     *)
(* assistant entry).                                                         *)
C16_Sent == probe.result

C16_Claim ==
    (probe.fn = "generateClaudeResponse" /\ probe.applied) =>
        /\ Len(C16_Sent) >= 1
        /\ \A i \in 1..Len(C16_Sent) : ~Includes(C16_Sent[i].content, Placeholder)
        /\ \A i \in 1..(Len(C16_Sent) - 1) : C16_Sent[i].role # C16_Sent[i + 1].role
        /\ C16_Sent[Len(C16_Sent)].role = "user"
        /\ LET filtered == ClaudeFiltered(probe.history)
           IN  (filtered # <<>> /\ filtered[Len(filtered)].role = "ai") =>
                   C16_Sent[Len(C16_Sent)].content = ContinuePrompt

----------------------------------------------------------------------------
(* C17: when more than one of the documented shapes of a responses-style     *)
(* reply carries text, generateOpenAIResponse returns the text of the first  *)
(* of them in the documented order: the direct text fields (output_text,     *)
(* text.content), then the nested content array (output[0].content[0].text), *)
(* then the legacy choices field (choices[0].text, choices[0].message        *)
(* .content); a reply with output_text and choices[0].message.content gives  *)
(* output_text.                                                              *)
DocumentedOrder ==
    << "output_text", "text_content", "output0", "choices_text", "choices_message" >>

Carries(response, shape) == response[shape] # NoText

CarriedDocumented(response) ==
    { i \in 1..Len(DocumentedOrder) : Carries(response, DocumentedOrder[i]) }

FirstDocumented(response) ==
    DocumentedOrder[CHOOSE i \in CarriedDocumented(response) :
                        \A j \in CarriedDocumented(response) : i <= j]

C17_HighestPriorityShape ==
    (/\ probe.fn = "generateOpenAIResponse"
     /\ probe.applied
     /\ Cardinality(CarriedDocumented(probe.response)) > 1)
    => probe.result = Ok(probe.response[FirstDocumented(probe.response)])

C17_Witness ==
    /\ probe.fn = "generateOpenAIResponse"
    /\ probe.applied
    /\ Carries(probe.response, "output_text")
    /\ Carries(probe.response, "choices_message")
    /\ probe.response.choices_message # probe.response.output_text
    /\ probe.result = Ok(probe.response.output_text)

----------------------------------------------------------------------------
(* C18: for a responses-style call, generateOpenAIResponse fails with the    *)
(* unexpected-response-shape error only if no known shape of the reply       *)
(* carries text; whenever at least one known shape carries text, a text is   *)
(* returned.                                                                 *)
CarriedShapes(response) == { shape \in ShapeNames : Carries(response, shape) }

C18_Claim ==
    (probe.fn = "generateOpenAIResponse" /\ probe.applied) =>
        /\ probe.result = Err(UnexpectedFormatMessage) =>
               CarriedShapes(probe.response) = {}
        /\ CarriedShapes(probe.response) # {} =>
               /\ probe.result.ok
               /\ \E shape \in CarriedShapes(probe.response) :
                      probe.result.text = probe.response[shape]

----------------------------------------------------------------------------
(* C19: for every provider and every value of the allowed range, temperature *)
(* 0 included, a temperature or maxTokens the caller supplied in config is   *)
(* the value of that parameter in the request, when the request carries the  *)
(* parameter; only a field the caller left unset takes a default.            *)
C19_Claim ==
    (probe.fn = "generateResponseWithConfig" /\ probe.applied) =>
        /\ (probe.result.temperature # NotSent /\ probe.config.temperature # Unset) =>
               probe.result.temperature = probe.config.temperature
        /\ (probe.result.maxTokens # NotSent /\ probe.config.maxTokens # Unset) =>
               probe.result.maxTokens = probe.config.maxTokens

----------------------------------------------------------------------------
(* C20: no two tasks of a needle-test run write the same key of the results  *)
(* map, so once every call has settled the map holds exactly one result per  *)
(* entry of the model list whose call succeeded.                             *)
SucceededTasks == { i \in 1..Len(tasks) : tasks[i].state = "done" /\ tasks[i].settled.ok }

C20_Claim ==
    /\ \A i, j \in SucceededTasks : i # j => tasks[i].modelId # tasks[j].modelId
    /\ (testState = "running" /\ AllSettled(tasks)) =>
           Cardinality(DOMAIN results) = Cardinality(SucceededTasks)

----------------------------------------------------------------------------
(* C21: the transcript is append-only and ordered by turn: every step leaves *)
(* messages unchanged or appends exactly one message at its end, the stored  *)
(* messages keep their content and place, and a model's message is appended  *)
(* by the turn step of that model's call.                                    *)
AppendsOne(old, new) ==
    /\ Len(new) = Len(old) + 1
    /\ SubSeq(new, 1, Len(old)) = old

C21_AppendOnly ==
    [][ /\ messages' = messages \/ AppendsOne(messages, messages')
        /\ (messages' # messages /\ Len(calls') < Len(calls)) =>
               \E i \in 1..Len(calls) :
                   /\ calls' = RemoveAt(calls, i)
                   /\ messages'[Len(messages')].provider = calls[i].modelId ]_vars

\* a transcript that grew by the turns of two different models
C21_Witness ==
    /\ Len(messages) >= 4
    /\ messages[1].provider = "user"
    /\ messages[2].provider # messages[3].provider
    /\ messages[2].provider # "user"
    /\ messages[3].provider # "user"

----------------------------------------------------------------------------
(* C22: every model call is bounded by a response timeout, so a provider     *)
(* call that never returns is abandoned: a running needle test eventually    *)
(* emits 'allTestsComplete', and a conversation with a call in flight        *)
(* eventually has that call behind it (and goes on to its next turn or ends).*)
C22_Claim ==
    /\ (testState = "running") ~> (testState = "complete")
    /\ (calls # <<>>) ~> (calls = <<>>)

----------------------------------------------------------------------------
(* The turn step in which the provider call calls[i] returns *)

\* the call calls[i] is the one that returns in this step
Returns(i) ==
    /\ i \in 1..Len(calls)
    /\ Len(calls') < Len(calls)
    /\ calls' = RemoveAt(calls, i)

\* what generateResponseWithConfig hands back to the turn step for calls[i]
TurnResult(i) ==
    generateResponseWithConfig(calls[i].modelId, calls[i].history, calls[i].pre,
        IF calls[i].pre = "ok" THEN reply'[calls[i].modelId] ELSE "fail")

NoValidMessagesMessage == "No valid messages to process"

\* the outcomes of the empty/invalid kind: a blank success, or a failure that
\* says the provider had no valid input or returned empty content
IsEmptyOutcome(result) ==
    \/ result.ok /\ IsBlank(result.text)
    \/ ~result.ok /\ result.message \in
           {AnthropicEmptyMessage, GeminiEmptyMessage, NoValidMessagesMessage}

(* C23: whenever a provider call returns with an outcome of the empty/invalid *)
(* kind, whatever the provider, the turn step appends one placeholder message *)
(* attributed to the model and raises the consecutive-empty counter by one.   *)
C23_Claim ==
    [][ \A i \in 1..Len(calls) :
            (Returns(i) /\ IsEmptyOutcome(TurnResult(i))) =>
                /\ messages' = Append(messages, Message(calls[i].modelId, Placeholder))
                /\ emptyResponseCount' = emptyResponseCount + 1 ]_vars

----------------------------------------------------------------------------
(* C24: whenever a provider call fails with a failure that is not of the      *)
(* empty/invalid kind, the turn step emits one 'error' event tagged with the   *)
(* model id, advances currentTurn by one, schedules the next turn step and     *)
(* leaves the transcript and the consecutive-empty counter as they were; the   *)
(* step always runs to its end.                                                *)
C24_OtherFailure ==
    [][ \A i \in 1..Len(calls) :
            (Returns(i) /\ ~TurnResult(i).ok /\ ~IsEmptyOutcome(TurnResult(i))) =>
                /\ emitted' = Append(emitted, Emit("error", calls[i].modelId))
                /\ currentTurn' = currentTurn + 1
                /\ timers' = Append(timers, "catch")
                /\ messages' = messages
                /\ emptyResponseCount' = emptyResponseCount
                /\ isActive' = isActive ]_vars

\* a transport failure of the first model has just been reported after an
\* earlier placeholder turn, and the retry is scheduled
C24_Witness ==
    /\ calls = <<>>
    /\ timers = <<"catch">>
    /\ emptyResponseCount = 1
    /\ currentTurn = 2
    /\ Len(messages) = 2
    /\ \E m \in AllModels :
           /\ reply[m] = "fail"
           /\ emitted[Len(emitted)] = Emit("error", m)

----------------------------------------------------------------------------
(* C25: whenever a provider call succeeds with non-blank text, the turn step   *)
(* resets the consecutive-empty counter to 0, appends exactly one message      *)
(* (provider the selected model, role 'ai', content the returned text), emits  *)
(* 'newMessage' with that message and advances currentTurn by one.             *)
C25_Success ==
    [][ \A i \in 1..Len(calls) :
            (Returns(i) /\ TurnResult(i).ok /\ ~IsBlank(TurnResult(i).text)) =>
                LET message == [provider |-> calls[i].modelId,
                                content  |-> TurnResult(i).text,
                                role     |-> "ai"]
                IN  /\ emptyResponseCount' = 0
                    /\ messages' = Append(messages, message)
                    /\ emitted' = Append(emitted, Emit("newMessage", message))
                    /\ currentTurn' = currentTurn + 1 ]_vars

\* a text reply has just been stored right after a placeholder turn
C25_Witness ==
    /\ Len(messages) >= 3
    /\ messages[Len(messages) - 1].content = Placeholder
    /\ messages[Len(messages)].content = ReplyText("text")
    /\ messages[Len(messages)].role = "ai"
    /\ emitted[Len(emitted)] = Emit("newMessage", messages[Len(messages)])
    /\ emptyResponseCount = 0
    /\ calls = <<>>

----------------------------------------------------------------------------
(* C26 as stated: currentTurn never decreases, and every turn step in which a  *)
(* provider call returns advances it by exactly one, the step that counts the  *)
(* 5th consecutive empty response included.                                    *)
C26_Claim ==
    [][ /\ currentTurn' >= currentTurn
        /\ (\E i \in 1..Len(calls) : Returns(i)) => currentTurn' = currentTurn + 1 ]_vars

(* C26: currentTurn never decreases, and a turn step in which a provider call  *)
(* returns advances it by exactly one, except the step that counts the 5th     *)
(* consecutive empty response: that step ends the conversation and leaves      *)
(* currentTurn as it was.                                                      *)
C26_TurnAdvance ==
    [][ /\ currentTurn' >= currentTurn
        /\ (\E i \in 1..Len(calls) : Returns(i)) =>
               IF emptyResponseCount' > emptyResponseCount
                  /\ EmptyLimitReached(emptyResponseCount')
               THEN currentTurn' = currentTurn /\ ~isActive'
               ELSE currentTurn' = currentTurn + 1 ]_vars

\* the 5th consecutive empty response has ended the conversation after turns
\* that failed and turns that stored a placeholder
C26_Witness ==
    /\ emptyResponseCount = MAX_EMPTY_RESPONSES
    /\ ~isActive
    /\ calls = <<>>
    /\ currentTurn > MAX_EMPTY_RESPONSES
    /\ \E k \in 1..Len(emitted) : emitted[k].event = "error" /\ emitted[k].arg # Null

----------------------------------------------------------------------------
(* C27: the history handed to the adapter when a turn step starts is exactly   *)
(* the most recent min(20, n) messages of the n-message transcript, in         *)
(* transcript order, and taking the window leaves the transcript as it was.    *)
C27_HistoryWindow ==
    [][ Len(calls') > Len(calls) =>
            LET n == Len(messages')
                k == IF n < 20 THEN n ELSE 20
            IN  /\ calls'[Len(calls')].history = [j \in 1..k |-> messages'[n - k + j]]
                /\ messages # <<>> => messages' = messages ]_vars

\* a call is in flight whose history is the last 20 of more than 20 messages,
\* and these differ from the first 20
C27_Witness ==
    /\ Len(calls) = 1
    /\ Len(messages) > HISTORY_LIMIT + 1
    /\ Len(calls[1].history) = HISTORY_LIMIT
    /\ calls[1].history[1] = messages[Len(messages) - HISTORY_LIMIT + 1]
    /\ calls[1].history # SubSeq(messages, 1, HISTORY_LIMIT)

----------------------------------------------------------------------------
(* C28: on every turn, however long the transcript, the goal framing a Gemini  *)
(* or Claude request carries is the conversation's original goal: the content  *)
(* of the first user message, with which the conversation was started. Stated  *)
(* for conversations whose seed is not blank, which every adapter keeps.       *)

\* the goal named in the framing of the request of the call c
FramingGoal(c) ==
    IF AdapterProvider(c.modelId) = "google" THEN GeminiInitialPrompt(c.history)
    ELSE ClaudeInitialPrompt(c.history)

\* the adapter of the call c gets as far as building its framing
BuildsFraming(c) ==
    /\ c.pre = "ok"
    /\ \/ AdapterProvider(c.modelId) = "anthropic"
       \/ /\ AdapterProvider(c.modelId) = "google"
          /\ \E j \in 1..Len(c.history) : ~IsBlank(c.history[j].content)

C28_Claim ==
    \A i \in 1..Len(calls) :
        (BuildsFraming(calls[i]) /\ ~IsBlank(messages[1].content)) =>
            FramingGoal(calls[i]) = messages[1].content

----------------------------------------------------------------------------
(* C29: in the events of a conversation, 'conversationStarted' comes first,    *)
(* right after it 'newMessage' with the seed user message, right after that    *)
(* 'aiThinking' for the first selected model (if a model could be selected);   *)
(* and every 'newMessage' with a model's response is preceded by an            *)
(* 'aiThinking' naming that model, with no other model announced or stored in  *)
(* between. The first selected model is the one the credential scan finds at  *)
(* turn 0 with the keys of the session, which Spec never changes.              *)

ConversationEvents == {"conversationStarted", "newMessage", "aiThinking", "conversationEnded"}

----------------------------------------------------------------------------
(* C30: the step that starts a conversation seeds the transcript with exactly  *)
(* one user message whose content is the initial prompt, or 'Hello' whenever   *)
(* the prompt is blank (missing, empty or whitespace-only), and turn           *)
(* processing begins in the same step: a provider call is started, or the      *)
(* conversation ends for want of a model.                                      *)
C30_Claim ==
    [][ (~exists /\ exists') =>
            /\ \E initialPrompt \in Prompts :
                   messages' = << [provider |-> "user",
                                   content  |-> IF IsBlank(initialPrompt)
                                                THEN Hello ELSE initialPrompt,
                                   role     |-> "user"] >>
            /\ Len(calls') = 1 \/ ~isActive' ]_vars

----------------------------------------------------------------------------
(* C31: the model a turn step selects is the first participant, in round-robin *)
(* order from index currentTurn mod participants.length, whose provider has a  *)
(* resolvable credential for the owner; a participant is passed over only for  *)
(* want of a credential, so every model the adapter registry resolves is       *)
(* selected when its provider key is there.                                    *)

\* the adapter registry resolves modelId, and its provider has a key
Selectable(modelId, userId) ==
    /\ AdapterProvider(modelId) # Null
    /\ Truthy(getApiKey(AdapterProvider(modelId), userId))

\* the participant the scan looks at in its attempt number attempts
Candidate(attempts) ==
    participants[((currentTurn + attempts) % Len(participants)) + 1]

C31_Claim ==
    \A i \in 1..Len(calls) :
        \E attempts \in 0..(Len(participants) - 1) :
            /\ calls[i].modelId = Candidate(attempts)
            /\ Selectable(Candidate(attempts), sessionId)
            /\ \A earlier \in 0..(attempts - 1) :
                   ~Selectable(Candidate(earlier), sessionId)

----------------------------------------------------------------------------
(* C32: if every provider call returns, every started conversation is          *)
(* eventually inactive (stopped, at the message ceiling or at the ceiling of   *)
(* repeated failures), also when no stop request comes and every call fails.   *)
C32_Claim == (exists /\ isActive) ~> ~isActive

----------------------------------------------------------------------------
(* C33: in every reachable state 0 <= emptyResponseCount <= 5, and a           *)
(* conversation whose emptyResponseCount is 5 is inactive.                     *)
C33_CounterBounded ==
    /\ emptyResponseCount \in 0..5
    /\ emptyResponseCount = 5 => ~isActive

\* the counter is at the ceiling: four placeholders were followed by a fifth,
\* which ended the conversation
C33_Witness ==
    /\ emptyResponseCount = 5
    /\ Len(messages) = 6
    /\ \A k \in 2..6 : messages[k].content = Placeholder
    /\ emitted[Len(emitted)].event = "conversationEnded"
    /\ timers = <<>>

----------------------------------------------------------------------------
(* C34: once a conversation has been stopped, its transcript grows by at most  *)
(* one message more: the response or placeholder of the provider call that     *)
(* was in flight at the stop, and by none if no call was in flight (the stop   *)
(* came during the delay between two turns). Stated for every inactive         *)
(* conversation: no turn step starts, and a message is appended only by the    *)
(* return of the one call in flight.                                           *)
C34_AtMostOneMore ==
    [][ (exists /\ ~isActive) =>
            /\ Len(calls) <= 1
            /\ Len(calls') <= Len(calls)
            /\ calls = <<>> => messages' = messages
            /\ messages' # messages =>
                   /\ calls' = <<>>
                   /\ Len(messages') = Len(messages) + 1
                   /\ messages'[Len(messages')].provider = calls[1].modelId ]_vars

\* the stop came while a call was in flight; the call's response was appended
\* afterwards, and the timer it scheduled is still pending
C34_Witness ==
    /\ stops = 1
    /\ ~isActive
    /\ calls = <<>>
    /\ timers # <<>>
    /\ Len(messages) >= 3
    /\ Len(emitted) >= 2
    /\ emitted[Len(emitted)] = Emit("newMessage", messages[Len(messages)])
    /\ emitted[Len(emitted) - 1] = Emit("conversationEnded", ReasonUserStop)

----------------------------------------------------------------------------
(* C35: at most one 'conversationEnded' event is emitted for a conversation,   *)
(* and no 'newMessage' is emitted after it, under every interleaving of stop   *)
(* requests, returning provider calls and timers.                              *)
EndedEvents == { j \in 1..Len(emitted) : emitted[j].event = "conversationEnded" }

C35_Claim ==
    /\ Cardinality(EndedEvents) <= 1
    /\ \A j \in EndedEvents :
           \A k \in (j + 1)..Len(emitted) : emitted[k].event # "newMessage"

----------------------------------------------------------------------------
(* Two sessions sharing the AIModelManager *)

Callers == {"s1", "s2"}
CallerKeys == {"key-a", "key-b"}
SharedModels == {"gpt-4", "claude-3-opus"}

\* socket.on('setApiKey') of the session userId
SetApiKeyFor(userId, provider, apiKey) ==
    /\ keySets < MaxSharedKeySets
    /\ keySets' = keySets + 1
    /\ userApiKeys' = setApiKey(userApiKeys, provider, apiKey, userId)
    /\ models' = initializeModel(models, provider, apiKey)
    /\ emitted' = Append(emitted, Emit("apiKeySet", provider))
    /\ UNCHANGED <<ENV_API_KEYS, convVars, needleVars, reply, probe>>

\* generateResponseWithConfig(modelId, messages, userId, config) up to its
\* first await: key lookup, initializeModel, and the request, which is issued
\* through the client that is in the provider's slot at that moment. The call
\* record keeps the caller and the key of that client.
IssueRequest(userId, modelId) ==
    /\ Len(calls) < MaxSharedCalls
    /\ AdapterPrecheck(modelId, userId) = "ok"
    /\ models' = AdapterClients(modelId, userId, models)
    /\ calls' = Append(calls,
           [modelId |-> modelId, history |-> <<>>, pre |-> "ok",
            userId |-> userId, client |-> models'[AdapterProvider(modelId)]])
    /\ UNCHANGED <<ENV_API_KEYS, userApiKeys, keySets, exists, participants, messages,
                   initialGoal, currentTurn, isActive, emptyResponseCount, timers,
                   started, stops, needleVars, reply, emitted, probe>>

\* the provider answers the request calls[i]; this.models is not read again
RequestReturns(i) ==
    /\ i \in 1..Len(calls)
    /\ calls' = RemoveAt(calls, i)
    /\ UNCHANGED <<keyVars, exists, participants, messages, initialGoal, currentTurn,
                   isActive, emptyResponseCount, timers, started, stops, needleVars,
                   reply, emitted, probe>>

InitShared == InitQuiet /\ probe = NoProbe

NextShared ==
    \/ \E userId \in Callers, provider \in {"openai", "anthropic"}, apiKey \in CallerKeys :
           SetApiKeyFor(userId, provider, apiKey)
    \/ \E userId \in Callers, modelId \in SharedModels : IssueRequest(userId, modelId)
    \/ \E i \in 1..Len(calls) : RequestReturns(i)

SpecShared == InitShared /\ [][NextShared]_vars

(* C36: with two callers holding different keys of their own for one provider  *)
(* and no environment key, every provider request is issued through a client   *)
(* initialised with the key resolved for the caller of that request, however   *)
(* the callers' requests are interleaved on the shared client slot.            *)
C36_CallerKey ==
    [][ Len(calls') > Len(calls) =>
            LET c == calls'[Len(calls')]
            IN  /\ Truthy(c.client)
                /\ c.client = getApiKey(AdapterProvider(c.modelId), c.userId) ]_vars

\* requests of both callers to one provider are in flight, issued with
\* different keys; the shared slot holds the key of the later one
C36_Witness ==
    /\ Len(calls) = 2
    /\ calls[1].userId # calls[2].userId
    /\ AdapterProvider(calls[1].modelId) = AdapterProvider(calls[2].modelId)
    /\ calls[1].client # calls[2].client
    /\ models[AdapterProvider(calls[2].modelId)] = calls[2].client

----------------------------------------------------------------------------
(* C37: a setApiKey request changes what getApiKey returns for one pair of     *)
(* user and provider at most; for every other user and every other provider    *)
(* getApiKey returns what it returned before. A user who stored no key for a   *)
(* provider gets none, whatever the other users stored.                        *)

\* the user has stored a key for the provider
StoredBy(userId, provider) ==
    /\ userId \in DOMAIN userApiKeys
    /\ userApiKeys[userId][provider] # NoStoredKey

C37_OwnEntryOnly ==
    [][ /\ userApiKeys' # userApiKeys =>
               \E userId \in Callers, provider \in Providers :
                   \A u \in Callers, p \in Providers :
                       (u # userId \/ p # provider) =>
                           getApiKey(p, u)' = getApiKey(p, u)
        /\ \A u \in Callers, p \in Providers :
               ~StoredBy(u, p)' => getApiKey(p, u)' = Null ]_vars

\* both users have stored a key for openai, each gets the own one, and the
\* user without an anthropic key gets none although the other has one
C37_Witness ==
    /\ getApiKey("openai", "s1") = "key-a"
    /\ getApiKey("openai", "s2") = "key-b"
    /\ getApiKey("anthropic", "s1") = "key-b"
    /\ getApiKey("anthropic", "s2") = Null

----------------------------------------------------------------------------
(* Conversations in which one participant cannot be selected *)

\* 'unknown-model' is an id neither table knows; startConversation lets it pass
RotationLists ==
    { <<"gpt-4", "claude-3-opus">>,
      <<"unknown-model", "gpt-4", "claude-3-opus">> }

InitRotation ==
    /\ Init
    /\ ENV_API_KEYS = [p \in Providers |-> "env-key"]

NextRotation ==
    \/ \E parts \in RotationLists : StartConversation(parts, <<"h","i">>)
    \/ \E i \in 1..Len(calls), r \in Replies : ProviderReturn(i, r)
    \/ \E i \in 1..Len(timers) : TimerFire(i, MaxRotationTurns)

SpecRotation == InitRotation /\ [][NextRotation]_vars

(* C38: whenever at least two participants are eligible, no participant is     *)
(* selected in two consecutive turn steps, and every eligible participant is   *)
(* selected once in every window of participants.length consecutive turn       *)
(* steps.                                                                      *)

\* the models selected by the turn steps so far, in order
Selections ==
    LET thinking == SelectSeq(emitted, LAMBDA e : e.event = "aiThinking")
    IN  [j \in 1..Len(thinking) |-> thinking[j].arg]

EligibleParticipants ==
    { participants[j] : j \in { k \in 1..Len(participants) :
                                    HasKey(participants[k], sessionId) } }

C38_Claim ==
    Cardinality(EligibleParticipants) >= 2 =>
        /\ \A j \in 1..(Len(Selections) - 1) : Selections[j] # Selections[j + 1]
        /\ \A j \in 1..(Len(Selections) - Len(participants) + 1) :
               \A modelId \in EligibleParticipants :
                   Cardinality({ i \in j..(j + Len(participants) - 1) :
                                     Selections[i] = modelId }) = 1

----------------------------------------------------------------------------
(* C39: a startConversation request with a participant whose provider has no   *)
(* resolvable credential is rejected, so a conversation exists only if every   *)
(* participant's provider has a credential, and no provider call of a          *)
(* conversation fails for want of a key.                                       *)
C39_Claim ==
    exists =>
        /\ \A j \in 1..Len(participants) :
               AdapterProvider(participants[j]) # Null =>
                   Selectable(participants[j], sessionId)
        /\ \A i \in 1..Len(calls) : calls[i].pre # NoApiKeyMessage

----------------------------------------------------------------------------
(* RateLimiter (security utilities): checkRateLimit and getRemainingRequests  *)

\* const RATE_LIMIT_WINDOW = 60 * 1000, in milliseconds
RATE_LIMIT_WINDOW == 60000

RateUsers == {"u1", "u2"}

\* the steps by which Date.now() advances between two calls
ClockSteps == {29999, 30000}

\* userRequests.filter(time => now - time < RATE_LIMIT_WINDOW)
ValidRequests(userRequests, now) ==
    SelectSeq(userRequests, LAMBDA time : now - time < RATE_LIMIT_WINDOW)

\* a test that lets one request more pass: validRequests.length > limit
RateLimitExceeded_Late(validRequests, limit) == Len(validRequests) > limit

\* if (validRequests.length >= limit) throw
RateLimitExceeded(validRequests, limit) == Len(validRequests) >= limit

\* Math.max(0, limit - validRequests.length); a user without an entry has the
\* empty list
getRemainingRequests(store, userId, limit, now) ==
    LET remaining == limit - Len(ValidRequests(store[userId], now))
    IN  IF remaining < 0 THEN 0 ELSE remaining

\* The state of the limiter is kept in probe: the clock (now), rateLimitStore
\* (store), whether the last call threw, and the times of all accepted calls
\* of each user (accepted), which the code does not keep.
InitRate ==
    /\ InitQuiet
    /\ probe = [fn |-> "checkRateLimit", now |-> 0,
                store |-> [u \in RateUsers |-> <<>>],
                accepted |-> [u \in RateUsers |-> <<>>],
                threw |-> FALSE, ticks |-> 0, checks |-> 0]

\* time passes
ClockAdvances(step) ==
    /\ probe.fn = "checkRateLimit"
    /\ probe.ticks < MaxClockSteps
    /\ probe' = [probe EXCEPT !.now = @ + step, !.ticks = @ + 1]
    /\ UNCHANGED <<keyVars, convVars, needleVars, reply, emitted>>

\* RateLimiter.checkRateLimit(userId, limit)
CheckRateLimit(userId, limit) ==
    /\ probe.fn = "checkRateLimit"
    /\ probe.checks < MaxRateChecks
    /\ LET validRequests == ValidRequests(probe.store[userId], probe.now)
       IN  IF RateLimitExceeded(validRequests, limit)
           THEN probe' = [probe EXCEPT !.threw = TRUE, !.checks = @ + 1]
           ELSE probe' = [probe EXCEPT
                              !.store[userId] = Append(validRequests, probe.now),
                              !.accepted[userId] = Append(@, probe.now),
                              !.threw = FALSE,
                              !.checks = @ + 1]
    /\ UNCHANGED <<keyVars, convVars, needleVars, reply, emitted>>

NextRate ==
    \/ \E step \in ClockSteps : ClockAdvances(step)
    \/ \E userId \in RateUsers : CheckRateLimit(userId, RateLimit)

SpecRate == InitRate /\ [][NextRate]_vars

(* C40: with a clock that never goes back, the calls accepted for a user       *)
(* within any interval shorter than RATE_LIMIT_WINDOW never exceed the limit;  *)
(* a call made when the window already holds limit accepted requests throws    *)
(* and is not recorded; and a call of one user never changes the quota         *)
(* getRemainingRequests reports for another user.                              *)

\* the calls of userId accepted less than a window before now
AcceptedInWindow(userId) ==
    { i \in 1..Len(probe.accepted[userId]) :
          probe.now - probe.accepted[userId][i] < RATE_LIMIT_WINDOW }

C40_WithinLimit ==
    \A userId \in RateUsers :
        \A i, j \in 1..Len(probe.accepted[userId]) :
            (i <= j /\ probe.accepted[userId][j] - probe.accepted[userId][i]
                           < RATE_LIMIT_WINDOW) => j - i + 1 <= RateLimit

C40_CallEffect ==
    probe'.checks > probe.checks =>
        \E userId \in RateUsers :
            /\ \A other \in RateUsers \ {userId} :
                   /\ probe'.store[other] = probe.store[other]
                   /\ getRemainingRequests(probe'.store, other, RateLimit, probe'.now)
                          = getRemainingRequests(probe.store, other, RateLimit, probe.now)
            /\ IF Cardinality(AcceptedInWindow(userId)) >= RateLimit
               THEN /\ probe'.threw
                    /\ probe'.store = probe.store
                    /\ probe'.accepted = probe.accepted
               ELSE /\ ~probe'.threw
                    /\ probe'.accepted[userId] = Append(probe.accepted[userId], probe.now)

C40_RateLimit == []C40_WithinLimit /\ [][C40_CallEffect]_vars

\* a user was accepted again after earlier requests had left the window and
\* has now been refused at the limit; the other user's quota is untouched
C40_Witness ==
    /\ probe.fn = "checkRateLimit"
    /\ \E userId \in RateUsers :
           /\ Len(probe.accepted[userId]) > RateLimit
           /\ Len(probe.store[userId]) = RateLimit
           /\ probe.threw
           /\ \E other \in RateUsers \ {userId} :
                  getRemainingRequests(probe.store, other, RateLimit, probe.now) = RateLimit

====
